---- MODULE Spec2Model ----
(***************************************************************************)
(* YFCore Canon-52 minimal adjudicator (src/src/canon52_minimal.py):       *)
(* CanonText / CanonJSON canonicalization, the SUPxANNO adjudicator with   *)
(* its SupportPack, and the two vector runners.                            *)
(*                                                                         *)
(* Python values are tagged records [t, v]: a bool is [t |-> "bool"] with  *)
(* v in {0,1}, an int is [t |-> "int"], JSON null / None is [t |-> "null"].*)
(* Text is a sequence of code points.                                      *)
(***************************************************************************)
EXTENDS Integers, Sequences, FiniteSets, TLC

VARIABLES
    apc, akeys, req, rec,    \* adjudicate: position, the flags the caller supplies,
                             \*   the request, the returned record
    tpc, traw, tout, tagain, \* canon_text: position, input, output, output of the output
    jpc, jval, jraw, jout,   \* canon_json: position, input value and text, output,
    jagain, jperm, jpout,    \*   output of the output, a permuted input and its output
    rpc, runner, pack, idx,  \* vector replay: position, which runner, the pack's vectors,
    ok, fail, outcome,       \*   the next vector, the two counters, how the run ended,
    got                      \*   what sha256_canon returned or raised for the vector

adjVars == <<apc, akeys, req, rec>>
textVars == <<tpc, traw, tout, tagain>>
jsonVars == <<jpc, jval, jraw, jout, jagain, jperm, jpout>>
runVars == <<rpc, runner, pack, idx, ok, fail, outcome, got>>
vars == <<adjVars, textVars, jsonVars, runVars>>

----------------------------------------------------------------------------
(* Bounds *)

\* a request holds at most MaxKeys flags
MaxKeys == 3
\* a text input holds at most MaxText characters
MaxText == 4
\* a JSON input array holds at most MaxArr elements
MaxArr == 3
\* a vector pack holds at most MaxVectors vectors
MaxVectors == 2

----------------------------------------------------------------------------
(* Python values *)

PyBool(b) == [t |-> "bool", v |-> IF b THEN 1 ELSE 0]
PyIntV(n) == [t |-> "int", v |-> n]
PyNone == [t |-> "null", v |-> 0]

\* bool(x) for None, bool and int
Truthy(x) == x.t \in {"bool", "int"} /\ x.v # 0

\* int(x) raises TypeError on None, and is the numeric value of a bool or int
IntRaises(x) == x.t = "null"
PyInt(x) == x.v

\* req.get(k, d)
Get(r, k, d) == IF k \in DOMAIN r THEN r[k] ELSE d

----------------------------------------------------------------------------
(* Canonicalization (CanonText): text is a sequence of code points *)

TAB == 9
LF == 10
CR == 13
SP == 32
DEL == 127
FORBIDDEN_ZERO_WIDTH == {8203, 8204, 8205, 65279}

Raised(e) == [raised |-> e]
Returns(x) == [raised |-> "NONE", out |-> x]
NoRecord == Raised("NOT_CALLED")

\* text.replace("\r\n", "\n"): left to right, non-overlapping
RECURSIVE ReplaceCRLF(_)
ReplaceCRLF(s) ==
    IF Len(s) = 0 THEN <<>>
    ELSE IF Len(s) >= 2 /\ s[1] = CR /\ s[2] = LF
         THEN <<LF>> \o ReplaceCRLF(SubSeq(s, 3, Len(s)))
         ELSE <<s[1]>> \o ReplaceCRLF(Tail(s))

\* text.replace("\r", "\n")
ReplaceCR(s) == [i \in 1..Len(s) |-> IF s[i] = CR THEN LF ELSE s[i]]

normalize_newlines(text) == ReplaceCR(ReplaceCRLF(text))

\* text.split("\n"): the lines, one more than the number of LF
RECURSIVE SplitLF(_, _)
SplitLF(s, cur) ==
    IF Len(s) = 0 THEN <<cur>>
    ELSE IF s[1] = LF THEN <<cur>> \o SplitLF(Tail(s), <<>>)
         ELSE SplitLF(Tail(s), Append(cur, s[1]))

\* ln.rstrip(" ")
RECURSIVE RStripSpaces(_)
RStripSpaces(ln) ==
    IF Len(ln) > 0 /\ ln[Len(ln)] = SP THEN RStripSpaces(SubSeq(ln, 1, Len(ln) - 1))
    ELSE ln

\* "\n".join(lines)
RECURSIVE JoinLF(_)
JoinLF(lines) ==
    IF Len(lines) = 0 THEN <<>>
    ELSE IF Len(lines) = 1 THEN lines[1]
         ELSE lines[1] \o <<LF>> \o JoinLF(Tail(lines))

strip_trailing_spaces(text) ==
    LET lines == SplitLF(text, <<>>)
    IN  JoinLF([i \in 1..Len(lines) |-> RStripSpaces(lines[i])])

\* unicodedata.normalize("NFC", t) on the modelled alphabet: the one canonical
\* composition among its characters is e (U+0065) + combining acute (U+0301) -> U+00E9;
\* a second combining acute does not compose with U+00E9.
LATIN_E == 101
COMBINING_ACUTE == 769
E_ACUTE == 233

RECURSIVE NFC(_)
NFC(s) ==
    IF Len(s) = 0 THEN <<>>
    ELSE IF Len(s) >= 2 /\ s[1] = LATIN_E /\ s[2] = COMBINING_ACUTE
         THEN <<E_ACUTE>> \o NFC(SubSeq(s, 3, Len(s)))
         ELSE <<s[1]>> \o NFC(Tail(s))

\* the error of the first forbidden character, or "NONE"
RECURSIVE forbid_text_chars(_)
forbid_text_chars(text) ==
    IF Len(text) = 0 THEN "NONE"
    ELSE LET ch == text[1]
         IN  IF ch = TAB THEN "TAB_FORBIDDEN"
             ELSE IF ch \in FORBIDDEN_ZERO_WIDTH THEN "ZERO_WIDTH_FORBIDDEN"
             ELSE IF ch < 32 /\ ch # LF THEN "CONTROL_CHAR_FORBIDDEN"
             ELSE IF ch = DEL THEN "CONTROL_CHAR_FORBIDDEN"
             ELSE forbid_text_chars(Tail(text))

\* canon_text stripping trailing spaces before normalizing the newlines
canon_text_swapped(raw) ==
    LET t1 == strip_trailing_spaces(raw)
        t2 == normalize_newlines(t1)
        t3 == NFC(t2)
        err == forbid_text_chars(t3)
    IN  IF err # "NONE" THEN Raised(err) ELSE Returns(t3)

canon_text(raw) ==
    LET t1 == normalize_newlines(raw)
        t2 == strip_trailing_spaces(t1)
        t3 == NFC(t2)
        err == forbid_text_chars(t3)
    IN  IF err # "NONE" THEN Raised(err) ELSE Returns(t3)

----------------------------------------------------------------------------
(* Canonicalization (CanonJSON)                                            *)
(* A JSON value is a record [t, n, s, a, k]: t its type, n the number of   *)
(* an int (0/1 of a bool), s the code points of a string, a the elements   *)
(* of an array or the values of an object, k the keys of an object in      *)
(* insertion order. JSON text is a sequence of code points.                *)

JNull == [t |-> "null", n |-> 0, s |-> <<>>, a |-> <<>>, k |-> <<>>]
JBool(b) == [t |-> "bool", n |-> IF b THEN 1 ELSE 0, s |-> <<>>, a |-> <<>>, k |-> <<>>]
JInt(i) == [t |-> "int", n |-> i, s |-> <<>>, a |-> <<>>, k |-> <<>>]
JStr(str) == [t |-> "str", n |-> 0, s |-> str, a |-> <<>>, k |-> <<>>]
JArr(elems) == [t |-> "list", n |-> 0, s |-> <<>>, a |-> elems, k |-> <<>>]
JObj(keys, vals) == [t |-> "dict", n |-> 0, s |-> <<>>, a |-> vals, k |-> keys]

\* Python's < on str (and on the code points of JSON text): lexicographic
RECURSIVE StrLess(_, _)
StrLess(x, y) ==
    IF Len(y) = 0 THEN FALSE
    ELSE IF Len(x) = 0 THEN TRUE
    ELSE IF x[1] # y[1] THEN x[1] < y[1]
    ELSE StrLess(Tail(x), Tail(y))

\* list.sort / sorted, one insertion: stable, x goes before the first element greater
\* than it; after is the set of positions of the elements greater than x
InsertAt(sorted, x, after) ==
    LET p == IF after = {} THEN Len(sorted) + 1
             ELSE CHOOSE i \in after : \A j \in after : i <= j
    IN  SubSeq(sorted, 1, p - 1) \o <<x>> \o SubSeq(sorted, p, Len(sorted))

\* the decimal digits of n >= 0
RECURSIVE Digits(_)
Digits(n) == IF n < 10 THEN <<48 + n>> ELSE Digits(n \div 10) \o <<48 + (n % 10)>>

HexDigit(d) == IF d < 10 THEN 48 + d ELSE 87 + d

\* one character of a string under ensure_ascii
EscapeChar(c) ==
    IF c = 34 THEN <<92, 34>>
    ELSE IF c = 92 THEN <<92, 92>>
    ELSE IF c = 10 THEN <<92, 110>>
    ELSE IF c = 13 THEN <<92, 114>>
    ELSE IF c = 9 THEN <<92, 116>>
    ELSE IF c >= 32 /\ c <= 126 THEN <<c>>
    ELSE <<92, 117, HexDigit((c \div 4096) % 16), HexDigit((c \div 256) % 16),
           HexDigit((c \div 16) % 16), HexDigit(c % 16)>>

RECURSIVE EscapeStr(_)
EscapeStr(str) == IF Len(str) = 0 THEN <<>> ELSE EscapeChar(str[1]) \o EscapeStr(Tail(str))

DumpStr(str) == <<34>> \o EscapeStr(str) \o <<34>>

\* the permutation of 1..Len(keys) that lists the keys in sorted order
KeyOrder(keys) ==
    LET upto[i \in 0..Len(keys)] ==
            IF i = 0 THEN <<>>
            ELSE LET prev == upto[i - 1]
                 IN  InsertAt(prev, i, {j \in 1..Len(prev) : StrLess(keys[i], keys[prev[j]])})
    IN  upto[Len(keys)]

\* json.dumps(v, ensure_ascii=True, separators=(",", ":")), with or without sort_keys
RECURSIVE json_dumps(_, _)
RECURSIVE DumpItems(_, _, _)
RECURSIVE DumpMembers(_, _, _, _, _)
DumpItems(elems, i, sort_keys) ==
    IF i > Len(elems) THEN <<>>
    ELSE (IF i > 1 THEN <<44>> ELSE <<>>) \o json_dumps(elems[i], sort_keys)
         \o DumpItems(elems, i + 1, sort_keys)
DumpMembers(keys, vals, order, i, sort_keys) ==
    IF i > Len(order) THEN <<>>
    ELSE (IF i > 1 THEN <<44>> ELSE <<>>) \o DumpStr(keys[order[i]]) \o <<58>>
         \o json_dumps(vals[order[i]], sort_keys)
         \o DumpMembers(keys, vals, order, i + 1, sort_keys)
json_dumps(v, sort_keys) ==
    IF v.t = "null" THEN <<110, 117, 108, 108>>
    ELSE IF v.t = "bool" THEN
        (IF v.n = 1 THEN <<116, 114, 117, 101>> ELSE <<102, 97, 108, 115, 101>>)
    ELSE IF v.t = "int" THEN (IF v.n < 0 THEN <<45>> \o Digits(-v.n) ELSE Digits(v.n))
    ELSE IF v.t = "str" THEN DumpStr(v.s)
    ELSE IF v.t = "list" THEN <<91>> \o DumpItems(v.a, 1, sort_keys) \o <<93>>
    ELSE <<123>>
         \o DumpMembers(v.k, v.a,
                        IF sort_keys THEN KeyOrder(v.k) ELSE [i \in 1..Len(v.k) |-> i],
                        1, sort_keys)
         \o <<125>>

\* the result of a parsing step: the error ("NONE" if none), the value, the next index
PErr(e) == [err |-> e, val |-> JNull, pos |-> 0]
POk(v, p) == [err |-> "NONE", val |-> v, pos |-> p]

IsDigit(c) == c >= 48 /\ c <= 57
HexVal(c) == IF c <= 57 THEN c - 48 ELSE IF c >= 97 THEN c - 87 ELSE c - 55
IsHex(c) == IsDigit(c) \/ (c >= 97 /\ c <= 102) \/ (c >= 65 /\ c <= 70)
At(txt, i) == IF i >= 1 /\ i <= Len(txt) THEN txt[i] ELSE -1
Lit(txt, i, word) ==
    i + Len(word) - 1 <= Len(txt) /\ SubSeq(txt, i, i + Len(word) - 1) = word

\* d[k] = v on a dict in insertion order: a repeated key keeps its place
DictSet(keys, vals, key, v) ==
    IF \E i \in 1..Len(keys) : keys[i] = key
    THEN <<keys, [i \in 1..Len(vals) |-> IF keys[i] = key THEN v ELSE vals[i]]>>
    ELSE <<Append(keys, key), Append(vals, v)>>

\* the string whose opening quote is before index i
RECURSIVE ParseString(_, _, _)
ParseString(txt, i, acc) ==
    LET c == At(txt, i)
    IN  IF c = -1 THEN PErr("JSONDecodeError")
        ELSE IF c = 34 THEN POk(JStr(acc), i + 1)
        ELSE IF c < 32 THEN PErr("JSONDecodeError")
        ELSE IF c # 92 THEN ParseString(txt, i + 1, Append(acc, c))
        ELSE LET e == At(txt, i + 1)
             IN  IF e \in {34, 92, 47} THEN ParseString(txt, i + 2, Append(acc, e))
                 ELSE IF e = 110 THEN ParseString(txt, i + 2, Append(acc, 10))
                 ELSE IF e = 114 THEN ParseString(txt, i + 2, Append(acc, 13))
                 ELSE IF e = 116 THEN ParseString(txt, i + 2, Append(acc, 9))
                 ELSE IF e = 98 THEN ParseString(txt, i + 2, Append(acc, 8))
                 ELSE IF e = 102 THEN ParseString(txt, i + 2, Append(acc, 12))
                 ELSE IF e = 117 /\ \A j \in 2..5 : IsHex(At(txt, i + j))
                      THEN ParseString(txt, i + 6,
                               Append(acc, HexVal(txt[i + 2]) * 4096 + HexVal(txt[i + 3]) * 256
                                           + HexVal(txt[i + 4]) * 16 + HexVal(txt[i + 5])))
                 ELSE PErr("JSONDecodeError")

RECURSIVE ScanDigits(_, _)
ScanDigits(txt, i) == IF IsDigit(At(txt, i)) THEN ScanDigits(txt, i + 1) ELSE i

RECURSIVE DigitsValue(_, _, _, _)
DigitsValue(txt, i, j, acc) ==
    IF i >= j THEN acc ELSE DigitsValue(txt, i + 1, j, acc * 10 + (txt[i] - 48))

\* parse_float=forbid_float: called on every number token with a fraction or exponent
forbid_float(token) == "FLOAT_FORBIDDEN"

\* a number token at index i
ParseNumber(txt, i) ==
    LET neg == At(txt, i) = 45
        d0 == IF neg THEN i + 1 ELSE i
        d1 == ScanDigits(txt, d0)
        frac == At(txt, d1) = 46 /\ IsDigit(At(txt, d1 + 1))
        f1 == IF frac THEN ScanDigits(txt, d1 + 1) ELSE d1
        expo == /\ At(txt, f1) \in {101, 69}
                /\ \/ IsDigit(At(txt, f1 + 1))
                   \/ (At(txt, f1 + 1) \in {43, 45} /\ IsDigit(At(txt, f1 + 2)))
        e1 == IF expo THEN ScanDigits(txt, f1 + 2) ELSE f1
    IN  IF d1 = d0 \/ (d1 > d0 + 1 /\ txt[d0] = 48) THEN PErr("JSONDecodeError")
        ELSE IF frac \/ expo THEN PErr(forbid_float(SubSeq(txt, i, e1 - 1)))
        ELSE POk(JInt((IF neg THEN -1 ELSE 1) * DigitsValue(txt, d0, d1, 0)), d1)

RECURSIVE ParseValue(_, _)
RECURSIVE ParseElems(_, _, _)
RECURSIVE ParseMembers(_, _, _, _)
\* the elements of an array after "[" or ",", up to "]"
ParseElems(txt, i, acc) ==
    LET r == ParseValue(txt, i)
    IN  IF r.err # "NONE" THEN r
        ELSE IF At(txt, r.pos) = 44 THEN ParseElems(txt, r.pos + 1, Append(acc, r.val))
        ELSE IF At(txt, r.pos) = 93 THEN POk(JArr(Append(acc, r.val)), r.pos + 1)
        ELSE PErr("JSONDecodeError")
\* the members of an object after "{" or ",", up to "}"
ParseMembers(txt, i, keys, vals) ==
    IF At(txt, i) # 34 THEN PErr("JSONDecodeError")
    ELSE LET ks == ParseString(txt, i + 1, <<>>)
         IN  IF ks.err # "NONE" THEN ks
             ELSE IF At(txt, ks.pos) # 58 THEN PErr("JSONDecodeError")
             ELSE LET r == ParseValue(txt, ks.pos + 1)
                      d == DictSet(keys, vals, ks.val.s, r.val)
                  IN  IF r.err # "NONE" THEN r
                      ELSE IF At(txt, r.pos) = 44
                           THEN ParseMembers(txt, r.pos + 1, d[1], d[2])
                      ELSE IF At(txt, r.pos) = 125 THEN POk(JObj(d[1], d[2]), r.pos + 1)
                      ELSE PErr("JSONDecodeError")
ParseValue(txt, i) ==
    LET c == At(txt, i)
    IN  IF c = 34 THEN ParseString(txt, i + 1, <<>>)
        ELSE IF c = 123 THEN
            (IF At(txt, i + 1) = 125 THEN POk(JObj(<<>>, <<>>), i + 2)
             ELSE ParseMembers(txt, i + 1, <<>>, <<>>))
        ELSE IF c = 91 THEN
            (IF At(txt, i + 1) = 93 THEN POk(JArr(<<>>), i + 2)
             ELSE ParseElems(txt, i + 1, <<>>))
        ELSE IF Lit(txt, i, <<110, 117, 108, 108>>) THEN POk(JNull, i + 4)
        ELSE IF Lit(txt, i, <<116, 114, 117, 101>>) THEN POk(JBool(TRUE), i + 4)
        ELSE IF Lit(txt, i, <<102, 97, 108, 115, 101>>) THEN POk(JBool(FALSE), i + 5)
        ELSE IF c = 45 \/ IsDigit(c) THEN ParseNumber(txt, i)
        ELSE PErr("JSONDecodeError")

\* json.loads(raw, parse_float=forbid_float) on text without insignificant whitespace
json_loads(raw) ==
    LET r == ParseValue(raw, 1)
    IN  IF r.err # "NONE" THEN r
        ELSE IF r.pos # Len(raw) + 1 THEN PErr("JSONDecodeError")
        ELSE r

\* the sort key of an array element: (rank, value)
elem_key(e) ==
    IF e.t = "null" THEN [rank |-> 0, n |-> 0, s |-> <<>>]
    ELSE IF e.t = "bool" THEN [rank |-> 1, n |-> e.n, s |-> <<>>]
    ELSE IF e.t = "int" THEN [rank |-> 2, n |-> e.n, s |-> <<>>]
    ELSE IF e.t = "str" THEN [rank |-> 3, n |-> 0, s |-> e.s]
    ELSE [rank |-> 4, n |-> 0, s |-> json_dumps(e, TRUE)]

\* Python's < on two such tuples
KeyLess(x, y) ==
    IF x.rank # y.rank THEN x.rank < y.rank
    ELSE IF x.rank \in {1, 2} THEN x.n < y.n
    ELSE StrLess(x.s, y.s)

ElemLess(x, y) == KeyLess(elem_key(x), elem_key(y))

\* sorted(elems, key=elem_key)
SortElems(elems) ==
    LET upto[i \in 0..Len(elems)] ==
            IF i = 0 THEN <<>>
            ELSE LET prev == upto[i - 1]
                 IN  InsertAt(prev, elems[i], {j \in 1..Len(prev) : ElemLess(elems[i], prev[j])})
    IN  upto[Len(elems)]

\* canonicalize_json_obj sorting the elements of an array without canonicalizing them
canonicalize_json_obj_shallow(obj) ==
    IF obj.t = "dict" THEN
        LET order == KeyOrder(obj.k)
        IN  JObj([i \in 1..Len(order) |-> obj.k[order[i]]],
                 [i \in 1..Len(order) |-> obj.a[order[i]]])
    ELSE IF obj.t = "list" THEN JArr(SortElems(obj.a))
    ELSE obj

RECURSIVE canonicalize_json_obj(_)
canonicalize_json_obj(obj) ==
    IF obj.t = "dict" THEN
        LET vals == [i \in 1..Len(obj.a) |-> canonicalize_json_obj(obj.a[i])]
            order == KeyOrder(obj.k)
        IN  JObj([i \in 1..Len(order) |-> obj.k[order[i]]],
                 [i \in 1..Len(order) |-> vals[order[i]]])
    ELSE IF obj.t = "list" THEN
        JArr(SortElems([i \in 1..Len(obj.a) |-> canonicalize_json_obj(obj.a[i])]))
    ELSE obj

canon_json(raw) ==
    LET obj == json_loads(raw)
    IN  IF obj.err # "NONE" THEN Raised(obj.err)
        ELSE Returns(json_dumps(canonicalize_json_obj(obj.val), TRUE))

----------------------------------------------------------------------------
(* Hashing: SHA-256 is kept as an injective tag on the text it digests *)

sha256_hex(text) == [sha256 |-> text]

sha256_canon(kind, raw) ==
    IF kind = "text" THEN
        LET c == canon_text(raw)
        IN  IF c.raised # "NONE" THEN c ELSE Returns(sha256_hex(c.out))
    ELSE IF kind = "json" THEN
        LET c == canon_json(raw)
        IN  IF c.raised # "NONE" THEN c ELSE Returns(sha256_hex(c.out))
    ELSE Raised("BAD_KIND")

----------------------------------------------------------------------------
(* Minimal adjudicator *)

HardFlags == {"chi_touch", "chi_harm", "unsupervised_write", "fake_proof_seal"}
SoftFlags == {"novel_attack_flag", "bypass_flag", "chi_infect", "chi_spread",
              "chi_poison", "uncertainty_flag", "pending"}
Flags == HardFlags \cup SoftFlags \cup
         {"valid_id", "proof_present", "world_allow", "policy_allow",
          "rollback", "ref", "i_flow", "commit_unique", "delta_omega_req"}

attack_hard_of(r) ==
    IF Truthy(Get(r, "chi_touch", PyNone)) \/ Truthy(Get(r, "chi_harm", PyNone))
       \/ Truthy(Get(r, "unsupervised_write", PyNone))
       \/ Truthy(Get(r, "fake_proof_seal", PyNone))
    THEN 1 ELSE 0

attack_soft_of(r) ==
    IF Truthy(Get(r, "novel_attack_flag", PyNone)) \/ Truthy(Get(r, "bypass_flag", PyNone))
       \/ Truthy(Get(r, "chi_infect", PyNone)) \/ Truthy(Get(r, "chi_spread", PyNone))
       \/ Truthy(Get(r, "chi_poison", PyNone))
       \/ Truthy(Get(r, "uncertainty_flag", PyNone)) \/ Truthy(Get(r, "pending", PyNone))
    THEN 1 ELSE 0

classify_attack(r) == <<attack_hard_of(r), attack_soft_of(r)>>

\* decide_route with the soft-attack rule tried before the hard-attack rule
decide_route_soft_first(r, attack_hard, attack_soft) ==
    IF attack_soft # 0 THEN "SAFE"
    ELSE IF attack_hard # 0 THEN "BLACKHOLE"
    ELSE IF Truthy(Get(r, "uncertainty_flag", PyNone)) THEN "SAFE"
    ELSE IF Truthy(Get(r, "pending", PyNone)) THEN "SAFE"
    ELSE IF ~Truthy(Get(r, "valid_id", PyBool(TRUE))) THEN "SAFE"
    ELSE IF ~Truthy(Get(r, "proof_present", PyBool(TRUE))) THEN "SAFE"
    ELSE "FAST"

\* decide_route without the proof_present rule
decide_route_no_proof_check(r, attack_hard, attack_soft) ==
    IF attack_hard # 0 THEN "BLACKHOLE"
    ELSE IF Truthy(Get(r, "uncertainty_flag", PyNone)) THEN "SAFE"
    ELSE IF Truthy(Get(r, "pending", PyNone)) THEN "SAFE"
    ELSE IF ~Truthy(Get(r, "valid_id", PyBool(TRUE))) THEN "SAFE"
    ELSE IF attack_soft # 0 THEN "SAFE"
    ELSE "FAST"

decide_route(r, attack_hard, attack_soft) ==
    IF attack_hard # 0 THEN "BLACKHOLE"
    ELSE IF Truthy(Get(r, "uncertainty_flag", PyNone)) THEN "SAFE"
    ELSE IF Truthy(Get(r, "pending", PyNone)) THEN "SAFE"
    ELSE IF ~Truthy(Get(r, "valid_id", PyBool(TRUE))) THEN "SAFE"
    ELSE IF ~Truthy(Get(r, "proof_present", PyBool(TRUE))) THEN "SAFE"
    ELSE IF attack_soft # 0 THEN "SAFE"
    ELSE "FAST"

\* bind_support_branch with rollback tried before ref on SAFE
bind_support_branch_rollback_first(route, r, attack_hard, i_flow, commit_unique_final) ==
    IF route = "FAST" THEN
        IF Truthy(Get(r, "world_allow", PyBool(TRUE))) /\ commit_unique_final = 1 /\ i_flow = 0
        THEN "WORLD_ALLOW"
        ELSE IF Truthy(Get(r, "policy_allow", PyBool(FALSE))) THEN "POLICY_ALLOW"
        ELSE "EVID_ALLOW"
    ELSE IF route = "SAFE" THEN
        IF Truthy(Get(r, "pending", PyBool(FALSE))) THEN "PENDING"
        ELSE IF Truthy(Get(r, "rollback", PyBool(FALSE))) THEN "ROLLBACK"
        ELSE IF Truthy(Get(r, "ref", PyBool(FALSE))) THEN "REF"
        ELSE "DENY"
    ELSE IF route = "BLACKHOLE" THEN
        IF attack_hard # 0 THEN "QUARANTINE"
        ELSE IF Truthy(Get(r, "rollback", PyBool(FALSE))) THEN "ROLLBACK"
        ELSE "DENY"
    ELSE "raise:BAD_ROUTE"

\* returns the justification code, or "raise:BAD_ROUTE"
bind_support_branch(route, r, attack_hard, i_flow, commit_unique_final) ==
    IF route = "FAST" THEN
        IF Truthy(Get(r, "world_allow", PyBool(TRUE))) /\ commit_unique_final = 1 /\ i_flow = 0
        THEN "WORLD_ALLOW"
        ELSE IF Truthy(Get(r, "policy_allow", PyBool(FALSE))) THEN "POLICY_ALLOW"
        ELSE "EVID_ALLOW"
    ELSE IF route = "SAFE" THEN
        IF Truthy(Get(r, "pending", PyBool(FALSE))) THEN "PENDING"
        ELSE IF Truthy(Get(r, "ref", PyBool(FALSE))) THEN "REF"
        ELSE IF Truthy(Get(r, "rollback", PyBool(FALSE))) THEN "ROLLBACK"
        ELSE "DENY"
    ELSE IF route = "BLACKHOLE" THEN
        IF attack_hard # 0 THEN "QUARANTINE"
        ELSE IF Truthy(Get(r, "rollback", PyBool(FALSE))) THEN "ROLLBACK"
        ELSE "DENY"
    ELSE "raise:BAD_ROUTE"

DisabledPlanes == <<"CLAIM", "PUBLISH", "TX", "BRIDGE", "TOOL", "WORLDWRITE",
                    "PROP", "RENDER", "INTERACT">>

out_allowed_of(route) ==
    IF route = "FAST" THEN <<"WORLDWRITE", "PUBLISH", "TX", "BRIDGE", "TOOL">>
    ELSE IF route = "SAFE" THEN <<"Explain", "EvidencePlan", "SimPlan", "REF", "UNCERT">>
    ELSE <<"REF">>

disable_planes_of(route) ==
    IF route = "FAST" THEN <<>> ELSE DisabledPlanes

delta_omega_of(route, commit_unique_final, i_flow, d_t, delta_omega_req) ==
    IF route = "FAST" /\ commit_unique_final = 1 /\ i_flow = 0 /\ d_t = "WORLD_ALLOW"
    THEN delta_omega_req ELSE 0

\* reason_code_of with no reason for any of the three allow codes
reason_code_of_allow_silent(d_t) ==
    IF d_t \in {"WORLD_ALLOW", "POLICY_ALLOW", "EVID_ALLOW"} THEN <<>>
    ELSE <<"REASON_" \o d_t>>

reason_code_of(d_t) ==
    IF d_t = "WORLD_ALLOW" THEN <<>> ELSE <<"REASON_" \o d_t>>

receipt_of(route, d_t) ==
    IF d_t = "WORLD_ALLOW" THEN "ReceiptCard^FLOW"
    ELSE IF route = "BLACKHOLE" THEN "DenyPacket" ELSE "ReceiptCard^FAIL"

support_pack_of(route, d_t, i_flow, delta_omega) ==
    [ d_t |-> d_t,
      Receipt_t |-> receipt_of(route, d_t),
      GateVector_t |-> [I_FLOW |-> i_flow, I_CORE_HEX |-> 0],
      HookVector_t |-> [h \in {"Pre-Action", "Pre-Commit"} |-> TRUE],
      WritebackVector_t |-> [tombstone_redacted |-> (delta_omega = 0), ChainCont |-> 1],
      ReasonCode_t |-> reason_code_of(d_t),
      Anchor_t |-> "ANCHOR_" \o route ]

\* commit_unique_final_of honouring the caller's flag on every route
commit_unique_final_of_unforced(route, commit_unique) == commit_unique

commit_unique_final_of(route, commit_unique) ==
    IF route = "FAST" THEN commit_unique ELSE 0

\* adjudicate(req): [raised |-> "NONE", out |-> the record], or [raised |-> the error]
adjudicate(r) ==
    LET ca == classify_attack(r)
        attack_hard == ca[1]
        attack_soft == ca[2]
        route == decide_route(r, attack_hard, attack_soft)
        i_flow_raw == Get(r, "i_flow", PyIntV(0))
        commit_raw == Get(r, "commit_unique", PyIntV(0))
        domega_raw == Get(r, "delta_omega_req", PyIntV(1))
    IN  IF IntRaises(i_flow_raw) \/ IntRaises(commit_raw) THEN Raised("TypeError")
        ELSE
        LET i_flow == PyInt(i_flow_raw)
            commit_unique == PyInt(commit_raw)
            commit_unique_final == commit_unique_final_of(route, commit_unique)
            d_t == bind_support_branch(route, r, attack_hard, i_flow, commit_unique_final)
        IN  IF d_t = "raise:BAD_ROUTE" THEN Raised("BAD_ROUTE")
            ELSE IF IntRaises(domega_raw) THEN Raised("TypeError")
            ELSE
            LET delta_omega_req == PyInt(domega_raw)
                delta_omega == delta_omega_of(route, commit_unique_final, i_flow, d_t,
                                              delta_omega_req)
                support_pack == support_pack_of(route, d_t, i_flow, delta_omega)
            IN  IF d_t # "WORLD_ALLOW" /\ support_pack.ReasonCode_t = <<>>
                THEN Raised("BYPASS_DETECTED")
                ELSE [ raised |-> "NONE",
                       out |-> [ Route |-> route,
                                 d_t |-> d_t,
                                 AttackHard |-> attack_hard,
                                 AttackSoft |-> attack_soft,
                                 I_FLOW |-> i_flow,
                                 CommitUnique |-> commit_unique_final,
                                 DeltaOmega |-> delta_omega,
                                 OutAllowed |-> out_allowed_of(route),
                                 disable_planes |-> disable_planes_of(route),
                                 SupportOK |-> TRUE,
                                 SupportPack |-> support_pack ] ]

----------------------------------------------------------------------------
(* Vector replay *)

\* str(e) of the exception the try block raises for vector v once sha256_canon has
\* returned or raised g, "NONE" if it raises none
canon_vector_exception(v, g) ==
    IF g.raised # "NONE" THEN g.raised
    ELSE IF v.expected # "hash" THEN "EXPECTED_ERROR_BUT_GOT_HASH"
    ELSE IF "expected_hash" \notin DOMAIN v THEN "KeyError:expected_hash"
    ELSE IF g.out # v.expected_hash THEN "HASH_MISMATCH"
    ELSE "NONE"

\* whether the except block counts the vector as a pass
canon_except_passes(v, e) ==
    IF v.expected = "error" THEN
        LET exp == IF "expected_error" \in DOMAIN v THEN v.expected_error ELSE ""
        IN  ~(exp # "" /\ e # exp)
    ELSE FALSE

\* whether the vector is counted in ok (otherwise in fail)
canon_vector_ok(v, g) ==
    IF canon_vector_exception(v, g) = "NONE" THEN TRUE
    ELSE canon_except_passes(v, canon_vector_exception(v, g))

AdjudKeys == {"Route", "d_t", "AttackHard", "AttackSoft", "I_FLOW", "CommitUnique",
              "DeltaOmega", "OutAllowed", "disable_planes", "SupportOK", "SupportPack"}

\* the keys on which out.get(k) != exp.get(k)
adjud_mismatch(out, exp) ==
    {k \in AdjudKeys : ~(k \in DOMAIN exp /\ exp[k] = out[k])}

----------------------------------------------------------------------------
(* Requests: every flag a boolean or an integer, absent flags left out *)

IntFlags == {"i_flow", "commit_unique", "delta_omega_req"}
BoolFlags == Flags \ IntFlags

\* values tried for a flag the code reads by truthiness, and for one it reads by int()
BoolFlagVals == {PyBool(FALSE), PyBool(TRUE), PyIntV(0), PyIntV(1)}
IntFlagVals == {PyBool(FALSE), PyBool(TRUE), PyIntV(0), PyIntV(1), PyIntV(2)}

\* the subsets of S of at most n elements
RECURSIVE KeySets(_, _)
KeySets(S, n) ==
    IF n = 0 THEN {{}}
    ELSE LET smaller == KeySets(S, n - 1)
         IN  smaller \cup {ks \cup {k} : ks \in smaller, k \in S}

RequestsOver(ks) ==
    {r \in [ks -> IntFlagVals] : \A k \in ks \cap BoolFlags : r[k] \in BoolFlagVals}

----------------------------------------------------------------------------
(* Specifications: one per component, the other components' variables at rest *)

AdjOff == apc = "off" /\ akeys = {} /\ req = <<>> /\ rec = NoRecord
TextOff == tpc = "off" /\ traw = <<>> /\ tout = NoRecord /\ tagain = NoRecord
RunOff ==
    /\ rpc = "off" /\ runner = "none" /\ pack = <<>> /\ idx = 1
    /\ ok = 0 /\ fail = 0 /\ outcome = "none" /\ got = NoRecord
JsonOff ==
    /\ jpc = "off" /\ jval = JNull /\ jraw = <<>> /\ jout = NoRecord
    /\ jagain = NoRecord /\ jperm = <<>> /\ jpout = NoRecord

Init ==
    /\ apc = "idle"
    /\ akeys \in KeySets(Flags, MaxKeys)
    /\ req = <<>>
    /\ rec = NoRecord
    /\ TextOff /\ JsonOff /\ RunOff

\* one call adjudicate(req), req any request that supplies the flags of akeys
Adjudicate ==
    /\ apc = "idle"
    /\ \E r \in RequestsOver(akeys) :
          /\ req' = r
          /\ rec' = adjudicate(r)
    /\ apc' = "done"
    /\ UNCHANGED <<akeys, textVars, jsonVars, runVars>>

Next == Adjudicate

Spec == Init /\ [][Next]_vars

\* the text inputs: every string of at most MaxText characters over TextChars, by length
TextChars == {0, TAB, LF, CR, SP, LATIN_E, COMBINING_ACUTE, DEL, 8203}

RECURSIVE TextsOfLen(_)
TextsOfLen(n) ==
    IF n = 0 THEN {<<>>}
    ELSE {Append(s, c) : s \in TextsOfLen(n - 1), c \in TextChars}

InitText ==
    /\ tpc = "idle"
    /\ \E n \in 0..MaxText : traw \in TextsOfLen(n)
    /\ tout = NoRecord
    /\ tagain = NoRecord
    /\ AdjOff /\ JsonOff /\ RunOff

\* canon_text(raw)
CanonText ==
    /\ tpc = "idle"
    /\ tout' = canon_text(traw)
    /\ tpc' = "once"
    /\ UNCHANGED <<traw, tagain, adjVars, jsonVars, runVars>>

\* canon_text applied to a successful output
CanonTextAgain ==
    /\ tpc = "once"
    /\ tout.raised = "NONE"
    /\ tagain' = canon_text(tout.out)
    /\ tpc' = "twice"
    /\ UNCHANGED <<traw, tout, adjVars, jsonVars, runVars>>

NextText == CanonText \/ CanonTextAgain

SpecText == InitText /\ [][NextText]_vars

\* the JSON inputs: JsonPool holds every scalar type, an array and an object whose own
\* elements are out of order. An input lists at most MaxArr of its elements (with
\* repetition) in the pool's order, which is not the canonical one; CanonJsonPermuted
\* then takes every arrangement of the same elements.
JsonPool ==
    << JObj(<< <<98>>, <<97>> >>, <<JInt(1), JArr(<<JBool(TRUE), JNull>>)>>),
       JStr(<<98>>), JStr(<<97>>),
       JArr(<<JInt(2), JStr(<<233>>)>>),
       JInt(10), JInt(2), JInt(-1),
       JBool(TRUE), JBool(FALSE), JNull >>

JsonInputs(n) ==
    {JArr([i \in 1..n |-> JsonPool[f[i]]]) :
        f \in {g \in [1..n -> 1..Len(JsonPool)] : \A i \in 1..(n - 1) : g[i] <= g[i + 1]}}

IndexPerms(n) == {p \in [1..n -> 1..n] : \A i, j \in 1..n : p[i] = p[j] => i = j}

\* v with the elements of its arrays permuted, at every depth
RECURSIVE DeepPerms(_)
RECURSIVE DeepChoices(_)
DeepChoices(elems) ==
    IF Len(elems) = 0 THEN {<<>>}
    ELSE {<<h>> \o t : h \in DeepPerms(Head(elems)), t \in DeepChoices(Tail(elems))}
DeepPerms(v) ==
    IF v.t = "dict" THEN {JObj(v.k, c) : c \in DeepChoices(v.a)}
    ELSE IF v.t = "list" THEN
        {JArr([i \in 1..Len(v.a) |-> c[p[i]]]) :
            c \in DeepChoices(v.a), p \in IndexPerms(Len(v.a))}
    ELSE {v}

InitJson ==
    /\ jpc = "idle"
    /\ \E n \in 0..MaxArr : jval \in JsonInputs(n)
    /\ jraw = json_dumps(jval, FALSE)
    /\ jout = NoRecord /\ jagain = NoRecord /\ jperm = <<>> /\ jpout = NoRecord
    /\ AdjOff /\ TextOff /\ RunOff

\* canon_json(raw)
CanonJson ==
    /\ jpc = "idle"
    /\ jout' = canon_json(jraw)
    /\ jpc' = "once"
    /\ UNCHANGED <<jval, jraw, jagain, jperm, jpout, adjVars, textVars, runVars>>

\* canon_json applied to its own output
CanonJsonAgain ==
    /\ jpc = "once"
    /\ jout.raised = "NONE"
    /\ jagain' = canon_json(jout.out)
    /\ jpc' = "twice"
    /\ UNCHANGED <<jval, jraw, jout, jperm, jpout, adjVars, textVars, runVars>>

\* canon_json applied to the text of a permutation of the input
CanonJsonPermuted ==
    /\ jpc = "twice"
    /\ \E p \in DeepPerms(jval) :
          /\ jperm' = json_dumps(p, FALSE)
          /\ jpout' = canon_json(jperm')
    /\ jpc' = "permuted"
    /\ UNCHANGED <<jval, jraw, jout, jagain, adjVars, textVars, runVars>>

NextJson == CanonJson \/ CanonJsonAgain \/ CanonJsonPermuted

SpecJson == InitJson /\ [][NextJson]_vars

\* the canonicalization vectors: five inputs (two texts, two JSON texts, an unknown
\* kind), each expecting a hash (the right one, another one, or none given) or an error
\* (none named, TAB_FORBIDDEN, or EXPECTED_ERROR_BUT_GOT_HASH)
CanonInputs ==
    { [kind |-> "text", raw |-> <<LATIN_E, SP, CR, LF>>],
      [kind |-> "text", raw |-> <<LATIN_E, TAB>>],
      [kind |-> "json", raw |-> <<91, 50, 44, 49, 93>>],
      [kind |-> "json", raw |-> <<91, 49, 46, 53, 93>>],
      [kind |-> "xml", raw |-> <<LATIN_E>>] }

HashPool == {sha256_hex(<<LATIN_E, LF>>), sha256_hex(<<91, 49, 44, 50, 93>>)}

CanonVectors ==
    {[kind |-> i.kind, raw |-> i.raw, expected |-> "hash"] : i \in CanonInputs}
    \cup {[kind |-> i.kind, raw |-> i.raw, expected |-> "hash", expected_hash |-> h] :
             i \in CanonInputs, h \in HashPool}
    \cup {[kind |-> i.kind, raw |-> i.raw, expected |-> "error"] : i \in CanonInputs}
    \cup {[kind |-> i.kind, raw |-> i.raw, expected |-> "error", expected_error |-> e] :
             i \in CanonInputs, e \in {"TAB_FORBIDDEN", "EXPECTED_ERROR_BUT_GOT_HASH"}}

\* the adjudication vectors: four requests, one of them with a JSON null for i_flow,
\* each with the record adjudicate returns for one of them, or an empty record
AdjudReqs ==
    { <<>>,
      [commit_unique |-> PyIntV(1)],
      [chi_harm |-> PyBool(TRUE)],
      [i_flow |-> PyNone] }

AdjudExpected ==
    {adjudicate(r).out : r \in {q \in AdjudReqs : adjudicate(q).raised = "NONE"}}
    \cup {<<>>}

AdjudVectors == {[req |-> r, expected |-> e] : r \in AdjudReqs, e \in AdjudExpected}

PacksOf(vectors) == UNION {[1..n -> vectors] : n \in 0..MaxVectors}

InitRun ==
    /\ rpc = "loop"
    /\ \/ runner = "canon" /\ pack \in PacksOf(CanonVectors)
       \/ runner = "adjud" /\ pack \in PacksOf(AdjudVectors)
    /\ idx = 1 /\ ok = 0 /\ fail = 0
    /\ outcome = "running" /\ got = NoRecord
    /\ AdjOff /\ TextOff /\ JsonOff

\* run_canon_selftest, the try block's first statement: got = sha256_canon(kind, raw),
\* which returns the hash or raises
CanonHash ==
    /\ rpc = "loop" /\ runner = "canon" /\ idx <= Len(pack)
    /\ got' = sha256_canon(pack[idx].kind, pack[idx].raw)
    /\ rpc' = "hashed"
    /\ UNCHANGED <<runner, pack, idx, ok, fail, outcome, adjVars, textVars, jsonVars>>

\* run_canon_selftest, the rest of the iteration: the two assertions, the except
\* block, and the counters
CanonCount ==
    /\ rpc = "hashed"
    /\ IF canon_vector_ok(pack[idx], got)
       THEN ok' = ok + 1 /\ fail' = fail
       ELSE fail' = fail + 1 /\ ok' = ok
    /\ idx' = idx + 1
    /\ rpc' = "loop"
    /\ UNCHANGED <<runner, pack, outcome, got, adjVars, textVars, jsonVars>>

\* run_adjud_tests: one iteration of the loop; an exception of adjudicate leaves it
AdjudVector ==
    /\ rpc = "loop" /\ runner = "adjud" /\ idx <= Len(pack)
    /\ LET out == adjudicate(pack[idx].req)
       IN  IF out.raised # "NONE"
           THEN /\ rpc' = "done"
                /\ outcome' = "uncaught:" \o out.raised
                /\ UNCHANGED <<idx, ok, fail>>
           ELSE /\ IF adjud_mismatch(out.out, pack[idx].expected) # {}
                   THEN fail' = fail + 1 /\ ok' = ok
                   ELSE ok' = ok + 1 /\ fail' = fail
                /\ idx' = idx + 1
                /\ UNCHANGED <<rpc, outcome>>
    /\ UNCHANGED <<runner, pack, got, adjVars, textVars, jsonVars>>

\* either runner after its loop: print the counts, raise SystemExit(1) if fail
Finish ==
    /\ rpc = "loop" /\ idx > Len(pack)
    /\ rpc' = "done"
    /\ outcome' = IF fail # 0 THEN "SystemExit(1)" ELSE "returned"
    /\ UNCHANGED <<runner, pack, idx, ok, fail, got, adjVars, textVars, jsonVars>>

NextRun == CanonHash \/ CanonCount \/ AdjudVector \/ Finish

SpecRun == InitRun /\ [][NextRun]_vars

----------------------------------------------------------------------------
(* Claims about adjudicate, checked under Spec *)

Returned == apc = "done" /\ rec.raised = "NONE"

\* the flag is present and truthy (absent flags default to false)
Set(k) == k \in DOMAIN req /\ req[k].v # 0
\* the flag is absent (default true) or truthy
SetOrAbsent(k) == k \notin DOMAIN req \/ req[k].v # 0
\* the integer the caller supplied, or the default
Supplied(k, d) == IF k \in DOMAIN req THEN req[k].v ELSE d

AnyHard == Set("chi_touch") \/ Set("chi_harm") \/ Set("unsupervised_write")
           \/ Set("fake_proof_seal")
AnySoft == Set("novel_attack_flag") \/ Set("bypass_flag") \/ Set("chi_infect")
           \/ Set("chi_spread") \/ Set("chi_poison") \/ Set("uncertainty_flag")
           \/ Set("pending")

Elems(seq) == {seq[i] : i \in 1..Len(seq)}

\* C1 (Lemma 3): for every request the returned record has DeltaOmega # 0 exactly
\* when Route = FAST, CommitUnique = 1, I_FLOW = 0 and d_t = WORLD_ALLOW.
C1_Lemma3 ==
    apc = "done" =>
        /\ rec.raised = "NONE"
        /\ (rec.out.DeltaOmega # 0) <=>
              (/\ rec.out.Route = "FAST"
               /\ rec.out.CommitUnique = 1
               /\ rec.out.I_FLOW = 0
               /\ rec.out.d_t = "WORLD_ALLOW")

\* C2 (no silent denial): adjudicate never raises BYPASS_DETECTED; ReasonCode_t is
\* empty exactly when d_t = WORLD_ALLOW, and otherwise is the one entry REASON_<d_t>.
C2_NoSilentDenial ==
    apc = "done" =>
        /\ rec.raised = "NONE"
        /\ LET d == rec.out.d_t
               rc == rec.out.SupportPack.ReasonCode_t
           IN  /\ (rc = <<>>) <=> (d = "WORLD_ALLOW")
               /\ d = "POLICY_ALLOW" => rc = <<"REASON_POLICY_ALLOW">>
               /\ d = "EVID_ALLOW" => rc = <<"REASON_EVID_ALLOW">>
               /\ d = "PENDING" => rc = <<"REASON_PENDING">>
               /\ d = "REF" => rc = <<"REASON_REF">>
               /\ d = "ROLLBACK" => rc = <<"REASON_ROLLBACK">>
               /\ d = "DENY" => rc = <<"REASON_DENY">>
               /\ d = "QUARANTINE" => rc = <<"REASON_QUARANTINE">>
               /\ d \in {"WORLD_ALLOW", "POLICY_ALLOW", "EVID_ALLOW", "PENDING", "REF",
                         "ROLLBACK", "DENY", "QUARANTINE"}
               /\ rec.out.SupportPack.d_t = d

C2_Witness ==
    /\ Returned
    /\ rec.out.d_t = "ROLLBACK"
    /\ rec.out.SupportPack.ReasonCode_t = <<"REASON_ROLLBACK">>

\* C3 (route selection): BLACKHOLE if a hard-attack flag is set; otherwise SAFE if
\* uncertainty_flag, pending, valid_id false, proof_present false or a soft-attack
\* flag; otherwise FAST.
C3_RouteFirstMatch ==
    apc = "done" =>
        /\ rec.raised = "NONE"
        /\ rec.out.Route =
              IF AnyHard THEN "BLACKHOLE"
              ELSE IF \/ Set("uncertainty_flag") \/ Set("pending")
                      \/ ~SetOrAbsent("valid_id") \/ ~SetOrAbsent("proof_present")
                      \/ AnySoft
                   THEN "SAFE"
                   ELSE "FAST"
        /\ rec.out.Route = "FAST" =>
              ~AnyHard /\ ~AnySoft /\ SetOrAbsent("valid_id") /\ SetOrAbsent("proof_present")

\* a hard-attack flag wins over pending, an invalid id and a missing proof
C3_Witness ==
    /\ Returned
    /\ Set("chi_harm") /\ Set("pending") /\ ~SetOrAbsent("valid_id")
    /\ rec.out.Route = "BLACKHOLE"

\* C4 (justification binding): FAST gives WORLD_ALLOW if world_allow, CommitUnique = 1
\* and I_FLOW = 0, else POLICY_ALLOW if policy_allow, else EVID_ALLOW; SAFE gives
\* PENDING, REF, ROLLBACK, DENY in that order; BLACKHOLE gives QUARANTINE if
\* attack_hard, else ROLLBACK, else DENY. The empty request gives FAST / EVID_ALLOW / 0
\* and {commit_unique:1, i_flow:0, world_allow:true} gives FAST / WORLD_ALLOW / 1.
C4_JustificationBinding ==
    apc = "done" =>
        /\ rec.raised = "NONE"
        /\ rec.out.Route = "FAST" =>
              rec.out.d_t =
                 IF SetOrAbsent("world_allow") /\ rec.out.CommitUnique = 1
                    /\ rec.out.I_FLOW = 0
                 THEN "WORLD_ALLOW"
                 ELSE IF Set("policy_allow") THEN "POLICY_ALLOW" ELSE "EVID_ALLOW"
        /\ rec.out.Route = "SAFE" =>
              rec.out.d_t =
                 IF Set("pending") THEN "PENDING"
                 ELSE IF Set("ref") THEN "REF"
                 ELSE IF Set("rollback") THEN "ROLLBACK" ELSE "DENY"
        /\ rec.out.Route = "BLACKHOLE" =>
              rec.out.d_t =
                 IF rec.out.AttackHard = 1 THEN "QUARANTINE"
                 ELSE IF Set("rollback") THEN "ROLLBACK" ELSE "DENY"
        /\ DOMAIN req = {} =>
              rec.out.Route = "FAST" /\ rec.out.d_t = "EVID_ALLOW" /\ rec.out.DeltaOmega = 0
        /\ req = [k \in {"commit_unique", "i_flow", "world_allow"} |->
                    IF k = "commit_unique" THEN PyIntV(1)
                    ELSE IF k = "i_flow" THEN PyIntV(0) ELSE PyBool(TRUE)] =>
              rec.out.Route = "FAST" /\ rec.out.d_t = "WORLD_ALLOW" /\ rec.out.DeltaOmega = 1

\* on SAFE, ref wins over rollback
C4_Witness ==
    /\ Returned
    /\ rec.out.Route = "SAFE"
    /\ Set("ref") /\ Set("rollback")
    /\ rec.out.d_t = "REF"

\* C7 (commit-uniqueness finalization): CommitUnique is the supplied commit_unique
\* (default 0) on FAST and 0 on SAFE and BLACKHOLE.
C7_CommitUniqueFinal ==
    apc = "done" =>
        /\ rec.raised = "NONE"
        /\ rec.out.CommitUnique =
              IF rec.out.Route = "FAST" THEN Supplied("commit_unique", 0) ELSE 0

\* a supplied commit_unique of 1 is forced to 0 off the FAST route
C7_Witness ==
    /\ Returned
    /\ rec.out.Route \in {"SAFE", "BLACKHOLE"}
    /\ Supplied("commit_unique", 0) = 1
    /\ rec.out.CommitUnique = 0

\* C10: a world effect is granted only with no attack flag, with valid_id,
\* proof_present and world_allow truthy, WORLDWRITE allowed and no plane disabled; on
\* SAFE and BLACKHOLE DeltaOmega = 0, WORLDWRITE is disabled and not allowed and the
\* tombstone is redacted; OutAllowed and disable_planes are always disjoint.
C10_NoEffectUnderAttack ==
    apc = "done" =>
        /\ rec.raised = "NONE"
        /\ rec.out.DeltaOmega # 0 =>
              /\ rec.out.AttackHard = 0 /\ rec.out.AttackSoft = 0
              /\ ~AnyHard /\ ~AnySoft
              /\ SetOrAbsent("valid_id") /\ SetOrAbsent("proof_present")
              /\ SetOrAbsent("world_allow")
              /\ "WORLDWRITE" \in Elems(rec.out.OutAllowed)
              /\ rec.out.disable_planes = <<>>
        /\ rec.out.Route \in {"SAFE", "BLACKHOLE"} =>
              /\ rec.out.DeltaOmega = 0
              /\ "WORLDWRITE" \in Elems(rec.out.disable_planes)
              /\ "WORLDWRITE" \notin Elems(rec.out.OutAllowed)
              /\ rec.out.SupportPack.WritebackVector_t.tombstone_redacted = TRUE
        /\ Elems(rec.out.OutAllowed) \cap Elems(rec.out.disable_planes) = {}

C10_Witness ==
    /\ Returned
    /\ rec.out.DeltaOmega # 0
    /\ "WORLDWRITE" \in Elems(rec.out.OutAllowed)

----------------------------------------------------------------------------
(* Claims about canon_text, checked under SpecText *)

\* C8: canon_text is idempotent on every input it accepts, and a successful output
\* holds no CR and no space right before a LF or at the end.
C8_CanonTextIdempotent ==
    /\ tpc = "twice" => (tagain.raised = "NONE" /\ tagain.out = tout.out)
    /\ (tpc \in {"once", "twice"} /\ tout.raised = "NONE") =>
          LET t == tout.out
          IN  /\ \A i \in 1..Len(t) : t[i] # CR
              /\ \A i \in 1..Len(t) : t[i] = SP => (i < Len(t) /\ t[i + 1] # LF)

\* an input with a trailing space before a CR LF, canonicalized twice
C8_Witness ==
    /\ tpc = "twice"
    /\ Len(traw) >= 4
    /\ traw[1] = LATIN_E /\ traw[2] = SP /\ traw[3] = CR /\ traw[4] = LF
    /\ tout.out = <<LATIN_E, LF>>
    /\ tagain.out = tout.out

----------------------------------------------------------------------------
(* Claims about canon_json, checked under SpecJson *)

TypeRank(v) ==
    IF v.t = "null" THEN 0 ELSE IF v.t = "bool" THEN 1 ELSE IF v.t = "int" THEN 2
    ELSE IF v.t = "str" THEN 3 ELSE 4

\* the elements of every array of v, at every depth, are in the canonical order
RECURSIVE Ordered(_)
Ordered(v) ==
    /\ \A i \in 1..Len(v.a) : Ordered(v.a[i])
    /\ v.t = "list" =>
          \A i \in 1..(Len(v.a) - 1) :
             LET x == v.a[i]
                 y == v.a[i + 1]
             IN  \/ TypeRank(x) < TypeRank(y)
                 \/ /\ TypeRank(x) = TypeRank(y)
                    /\ \/ x = y
                       \/ x.t \in {"bool", "int"} /\ x.n < y.n
                       \/ x.t = "str" /\ StrLess(x.s, y.s)
                       \/ TypeRank(x) = 4 /\ StrLess(json_dumps(x, TRUE), json_dumps(y, TRUE))

\* C9: canon_json gives every permutation of a float-free array (at any depth) the same
\* output, returns its own output unchanged, and orders the elements
\* null < false < true < integers < strings < other values.
C9_CanonJsonOrderIndependent ==
    /\ jpc = "once" => (jout.raised = "NONE" /\ Ordered(json_loads(jout.out).val))
    /\ jpc = "twice" => jagain = jout
    /\ jpc = "permuted" => jpout = jout

\* an unsorted array with a nested unsorted array, and a permutation that differs from it
C9_Witness ==
    /\ jpc = "permuted"
    /\ jperm # jraw
    /\ jval.a = <<JStr(<<97>>), JArr(<<JInt(2), JStr(<<233>>)>>), JInt(10)>>
    /\ jout.out # jraw
    /\ jperm = json_dumps(JArr(<<JArr(<<JStr(<<233>>), JInt(2)>>), JInt(10), JStr(<<97>>)>>),
                          FALSE)
    /\ jpout = jout

----------------------------------------------------------------------------
(* Claims about the vector runners, checked under SpecRun *)

\* C5: in run_canon_selftest a vector expecting an error is counted as a pass only if
\* canonicalizing and hashing its input raised an error, and, when expected_error is
\* given, only if that error's code equals it.
C5_ErrorVectorPassNeedsError ==
    [][ (/\ rpc = "hashed"
         /\ pack[idx].expected = "error"
         /\ ok' = ok + 1)
        => /\ got.raised # "NONE"
           /\ ("expected_error" \in DOMAIN pack[idx] /\ pack[idx].expected_error # "")
                 => got.raised = pack[idx].expected_error ]_vars

\* C6: neither runner aborts early: when a run has ended OK + FAIL is the number of
\* vectors of the pack, and it signals failure (exit 1) exactly when FAIL > 0.
C6_ReplayNeverAborts ==
    rpc = "done" =>
        /\ ok + fail = Len(pack)
        /\ outcome \in {"returned", "SystemExit(1)"}
        /\ (outcome = "SystemExit(1)") <=> (fail > 0)

====
